---- MODULE Spec2Model ----
(***************************************************************************)
(* Model of HostApp/script.js: the hostGame store (question list, game     *)
(* name), its URL-fragment codec (#hashState / #unhashState) and the       *)
(* public mutators, in both revisions of the script that the repository    *)
(* carries (lines 1-193 and lines 195-435).                                *)
(*                                                                         *)
(* JavaScript strings are sequences of one-character strings, so that      *)
(* trimming, word counting, JSON escaping and JSON parsing are computed    *)
(* character by character.  JavaScript values are tagged records.          *)
(***************************************************************************)
EXTENDS Integers, Sequences, FiniteSets, Bags, TLC

(***************************************************************************)
(* Bounds of the model.                                                    *)
(***************************************************************************)
\* the mutators stop growing the question list at this length
MaxQuestions == 2
\* splice indices are drawn from -MaxIndex .. MaxIndex
MaxIndex == 2

(***************************************************************************)
(* Call by value.  JavaScript evaluates an argument or a `const` once and  *)
(* binds its value; With(x, F) is F applied to the value of x.             *)
(***************************************************************************)
With(x, F(_)) == CHOOSE y \in {F(v) : v \in {x}} : TRUE
With2(x1, x2, F(_, _)) == CHOOSE y \in {F(v1, v2) : v1 \in {x1}, v2 \in {x2}} : TRUE

(***************************************************************************)
(* JavaScript values.                                                      *)
(***************************************************************************)
Undef == [t |-> "undefined"]
Null == [t |-> "null"]
Infinity == [t |-> "infinity"]
Bool(b) == [t |-> "boolean", b |-> b]
Num(n) == [t |-> "number", n |-> n]
Str(s) == [t |-> "string", s |-> s]
Arr(a) == [t |-> "array", a |-> a]
\* o is the sequence of <<key, value>> pairs in insertion order, keys distinct
Obj(o) == [t |-> "object", o |-> o]

IsStr(v) == v.t = "string"
IsArr(v) == v.t = "array"

\* ToBoolean, as used by `!x`
Truthy(v) ==
    CASE v.t = "undefined" -> FALSE
      [] v.t = "null" -> FALSE
      [] v.t = "boolean" -> v.b
      [] v.t = "number" -> v.n # 0
      [] v.t = "string" -> v.s # <<>>
      [] OTHER -> TRUE

\* obj.key for a non-nullish obj; only own properties of parsed objects can
\* be named "title" or "list"
Get(v, key) ==
    IF v.t = "object" /\ \E i \in 1..Len(v.o) : v.o[i][1] = key
    THEN v.o[CHOOSE i \in 1..Len(v.o) : v.o[i][1] = key][2]
    ELSE Undef

(***************************************************************************)
(* String.prototype.trim and split(/\s+/).length                           *)
(***************************************************************************)
IsWs(c) == c \in {" ", "\t"}

\* the string without its leading and trailing whitespace
Trim(s) ==
    With(s, LAMBDA v :
        With({i \in 1..Len(v) : ~IsWs(v[i])}, LAMBDA black :
            IF black = {} THEN <<>>
            ELSE SubSeq(v, CHOOSE i \in black : \A j \in black : i <= j,
                           CHOOSE i \in black : \A j \in black : j <= i)))

\* number of maximal whitespace runs in s: each is one match of /\s+/
WsRuns(s) ==
    With(s, LAMBDA v :
        Cardinality({i \in 1..Len(v) : IsWs(v[i]) /\ (i = 1 \/ ~IsWs(v[i - 1]))}))

\* s.split(/\s+/).length: one piece more than there are separators
SplitLen(s) == WsRuns(s) + 1

(***************************************************************************)
(* JSON.stringify                                                          *)
(***************************************************************************)
Digit == <<"0", "1", "2", "3", "4", "5", "6", "7", "8", "9">>

RECURSIVE NumToChars(_)
NumToChars(n) ==
    IF n < 10 THEN <<Digit[n + 1]>>
    ELSE NumToChars(n \div 10) \o <<Digit[(n % 10) + 1]>>

\* an escape that leaves the double quote as it is
EscapeChar_rawQuote(c) ==
    CASE c = "\\" -> <<"\\", "\\">>
      [] c = "\t" -> <<"\\", "t">>
      [] OTHER -> <<c>>

\* the escape of one character of a string by JSON.stringify
EscapeChar(c) ==
    CASE c = "\"" -> <<"\\", "\"">>
      [] c = "\\" -> <<"\\", "\\">>
      [] c = "\t" -> <<"\\", "t">>
      [] OTHER -> <<c>>

\* the escaped characters of s[lo..hi], by halves
RECURSIVE EscapeRange(_, _, _)
EscapeRange(s, lo, hi) ==
    IF lo > hi THEN <<>>
    ELSE IF lo = hi THEN EscapeChar(s[lo])
    ELSE With2((lo + hi) \div 2, hi, LAMBDA mid, end :
            EscapeRange(s, lo, mid) \o EscapeRange(s, mid + 1, end))

EscapeChars(s) == With(s, LAMBDA v : EscapeRange(v, 1, Len(v)))

Quote(s) == <<"\"">> \o EscapeChars(s) \o <<"\"">>

Chars_null == <<"n", "u", "l", "l">>
Chars_true == <<"t", "r", "u", "e">>
Chars_false == <<"f", "a", "l", "s", "e">>

RECURSIVE Serialize(_), SerializeElems(_), SerializeMembers(_, _)
\* the JSON text of a value other than undefined
Serialize(v) ==
    CASE v.t = "null" -> Chars_null
      [] v.t = "infinity" -> Chars_null
      [] v.t = "boolean" -> IF v.b THEN Chars_true ELSE Chars_false
      [] v.t = "number" -> NumToChars(v.n)
      [] v.t = "string" -> Quote(v.s)
      [] v.t = "array" -> <<"[">> \o SerializeElems(v.a) \o <<"]">>
      [] v.t = "object" -> <<"{">> \o SerializeMembers(v.o, TRUE) \o <<"}">>

\* array elements: undefined is written as null
SerializeElems(a) ==
    IF a = <<>> THEN <<>>
    ELSE (IF Head(a).t = "undefined" THEN Chars_null ELSE Serialize(Head(a)))
         \o (IF Len(a) > 1 THEN <<",">> ELSE <<>>)
         \o SerializeElems(Tail(a))

\* object members: a member whose value is undefined is left out
SerializeMembers(o, first) ==
    IF o = <<>> THEN <<>>
    ELSE IF Head(o)[2].t = "undefined" THEN SerializeMembers(Tail(o), first)
    ELSE (IF first THEN <<>> ELSE <<",">>)
         \o Quote(Head(o)[1]) \o <<":">> \o Serialize(Head(o)[2])
         \o SerializeMembers(Tail(o), FALSE)

JSONStringify(v) == Serialize(v)

Key_title == <<"t", "i", "t", "l", "e">>
Key_list == <<"l", "i", "s", "t">>

(***************************************************************************)
(* JSON.parse: a recursive-descent parser of JSON text.  A parse step      *)
(* returns Ok(value, next position) or Fail (SyntaxError).  Numbers are    *)
(* the unsigned integers, with an optional exponent; string escapes are    *)
(* \" \\ \/ \t \n.                                                         *)
(***************************************************************************)
Fail == [ok |-> FALSE]
Ok(v, i) == [ok |-> TRUE, v |-> v, i |-> i]

IsDigit(c) == \E d \in 1..10 : Digit[d] = c
DigitVal(c) == (CHOOSE d \in 1..10 : Digit[d] = c) - 1

RECURSIVE SkipWs(_, _)
SkipWs(t, i) ==
    IF i <= Len(t) /\ t[i] \in {" ", "\t", "\n"} THEN SkipWs(t, i + 1) ELSE i

StartsWith(t, i, lit) ==
    /\ i + Len(lit) - 1 <= Len(t)
    /\ SubSeq(t, i, i + Len(lit) - 1) = lit

\* the number of consecutive backslashes that end at position p
RECURSIVE BsRun(_, _)
BsRun(t, p) == IF p >= 1 /\ t[p] = "\\" THEN 1 + BsRun(t, p - 1) ELSE 0

\* inside a string literal, the character at p is the second character of
\* an escape sequence iff an odd number of backslashes comes just before it
Escaped(t, p) == BsRun(t, p - 1) % 2 = 1

Unescape(c) ==
    CASE c = "t" -> "\t"
      [] c = "n" -> "\n"
      [] OTHER -> c

\* the characters denoted by t[lo..hi] inside a string literal, by halves
RECURSIVE UnescapeRange(_, _, _)
UnescapeRange(t, lo, hi) ==
    IF lo > hi THEN <<>>
    ELSE IF lo = hi THEN
        IF Escaped(t, lo) THEN <<Unescape(t[lo])>>
        ELSE IF t[lo] = "\\" THEN <<>>
        ELSE <<t[lo]>>
    ELSE With2((lo + hi) \div 2, hi, LAMBDA mid, end :
            UnescapeRange(t, lo, mid) \o UnescapeRange(t, mid + 1, end))

\* a string literal whose opening quote is at position i - 1: it ends at
\* the first quote that is not escaped; an escape other than the known
\* ones, or a raw control character, is a SyntaxError
ParseChars(t, i) ==
    With({p \in i..Len(t) : t[p] = "\"" /\ ~Escaped(t, p)}, LAMBDA quotes :
        IF quotes = {} THEN Fail
        ELSE With(CHOOSE p \in quotes : \A q \in quotes : p <= q, LAMBDA close :
                LET wellFormed ==
                        \A p \in i..(close - 1) :
                            IF Escaped(t, p) THEN t[p] \in {"\"", "\\", "/", "t", "n"}
                            ELSE t[p] \notin {"\t", "\n"}
                IN  IF wellFormed
                    THEN Ok(Str(UnescapeRange(t, i, close - 1)), close + 1)
                    ELSE Fail))

\* a run of digits from position i: <<value, number of digits>>
RECURSIVE ParseDigits(_, _, _, _)
ParseDigits(t, i, val, n) ==
    IF i <= Len(t) /\ IsDigit(t[i])
    THEN With2(i + 1, val * 10 + DigitVal(t[i]), LAMBDA j, w :
            ParseDigits(t, j, w, n + 1))
    ELSE <<val, n>>

RECURSIVE Pow10(_)
Pow10(e) == IF e = 0 THEN 1 ELSE 10 * Pow10(e - 1)

\* the largest decimal exponent of a finite double is 308
MaxDoubleExp == 308

ParseNumber(t, i) ==
    With(ParseDigits(t, i, 0, 0), LAMBDA m :
        LET j == i + m[2]
            leadingZero == t[i] = "0" /\ m[2] > 1
        IN  IF leadingZero THEN Fail
            ELSE IF j <= Len(t) /\ t[j] \in {"e", "E"} THEN
                With(IF j + 1 <= Len(t) /\ t[j + 1] = "+" THEN j + 2 ELSE j + 1,
                     LAMBDA k :
                    With(ParseDigits(t, k, 0, 0), LAMBDA x :
                        IF x[2] = 0 THEN Fail
                        ELSE IF m[1] = 0 THEN Ok(Num(0), k + x[2])
                        ELSE IF x[1] + m[2] - 1 > MaxDoubleExp
                        THEN Ok(Infinity, k + x[2])
                        ELSE Ok(Num(m[1] * Pow10(x[1])), k + x[2])))
            ELSE Ok(Num(m[1]), j))

\* defining a property of an object being built: a repeated key keeps its
\* place and takes the later value
SetProp(o, k, v) ==
    IF \E n \in 1..Len(o) : o[n][1] = k
    THEN [n \in 1..Len(o) |-> IF o[n][1] = k THEN <<k, v>> ELSE o[n]]
    ELSE Append(o, <<k, v>>)

RECURSIVE ParseValue(_, _), ParseElems(_, _, _), ParseMembers(_, _, _)
\* a value starting exactly at position i
ParseValue(t, i) ==
    IF i > Len(t) THEN Fail
    ELSE CASE t[i] = "{" ->
                With(SkipWs(t, i + 1), LAMBDA j :
                    IF j <= Len(t) /\ t[j] = "}" THEN Ok(Obj(<<>>), j + 1)
                    ELSE ParseMembers(t, j, <<>>))
           [] t[i] = "[" ->
                With(SkipWs(t, i + 1), LAMBDA j :
                    IF j <= Len(t) /\ t[j] = "]" THEN Ok(Arr(<<>>), j + 1)
                    ELSE ParseElems(t, j, <<>>))
           [] t[i] = "\"" -> ParseChars(t, i + 1)
           [] IsDigit(t[i]) -> ParseNumber(t, i)
           [] StartsWith(t, i, Chars_null) -> Ok(Null, i + 4)
           [] StartsWith(t, i, Chars_true) -> Ok(Bool(TRUE), i + 4)
           [] StartsWith(t, i, Chars_false) -> Ok(Bool(FALSE), i + 5)
           [] OTHER -> Fail

\* the elements of an array from position i on, up to the closing bracket
ParseElems(t, i, acc) ==
    With(ParseValue(t, i), LAMBDA r :
        IF ~r.ok THEN Fail
        ELSE With(SkipWs(t, r.i), LAMBDA j :
                IF j > Len(t) THEN Fail
                ELSE IF t[j] = "]" THEN Ok(Arr(Append(acc, r.v)), j + 1)
                ELSE IF t[j] = "," THEN
                    With2(SkipWs(t, j + 1), Append(acc, r.v), LAMBDA next, elems :
                        ParseElems(t, next, elems))
                ELSE Fail))

\* the members of an object from position i on, up to the closing brace
ParseMembers(t, i, acc) ==
    IF i > Len(t) \/ t[i] # "\"" THEN Fail
    ELSE With(ParseChars(t, i + 1), LAMBDA k :
            IF ~k.ok THEN Fail
            ELSE With(SkipWs(t, k.i), LAMBDA c :
                    IF c > Len(t) \/ t[c] # ":" THEN Fail
                    ELSE With(ParseValue(t, SkipWs(t, c + 1)), LAMBDA r :
                            IF ~r.ok THEN Fail
                            ELSE With2(SkipWs(t, r.i), SetProp(acc, k.v.s, r.v),
                                       LAMBDA j, o :
                                    IF j > Len(t) THEN Fail
                                    ELSE IF t[j] = "}" THEN Ok(Obj(o), j + 1)
                                    ELSE IF t[j] = "," THEN
                                        With(SkipWs(t, j + 1), LAMBDA next :
                                            ParseMembers(t, next, o))
                                    ELSE Fail))))

\* JSON.parse(x): the argument is first converted to a string, so null is
\* read as the text "null".  [ok |-> FALSE] is a thrown SyntaxError.
JSONParse(x) ==
    With(IF x.t = "null" THEN Chars_null ELSE x.s, LAMBDA t :
        With(ParseValue(t, SkipWs(t, 1)), LAMBDA r :
            IF r.ok /\ SkipWs(t, r.i) = Len(t) + 1
            THEN [ok |-> TRUE, v |-> r.v]
            ELSE Fail))

(***************************************************************************)
(* LZString.compressToEncodedURIComponent / decompressFromEncodedURI-       *)
(* Component.  The library is not part of the repository; it is modelled   *)
(* by its contract: a reversible encoding of text into a non-empty string  *)
(* over a URI-safe alphabet, whose inverse yields null on the empty string *)
(* and on a string that is not an encoding.  Here: a header symbol, then   *)
(* two symbols per character.                                              *)
(***************************************************************************)
Alphabet ==
    <<"a", "b", "c", "d", "e", "f", "g", "h", "i", "j", "k", "l", "m",
      "n", "o", "p", "q", "r", "s", "t", "u", "v", "w", "x", "y", "z",
      "0", "1", "2", "3", "4", "5", "6", "7", "8", "9",
      "{", "}", "[", "]", ":", ",", "\"", "\\", "/", "+", "-", ".",
      " ", "\t", "\n", "E">>

SafeSym == <<"A", "B", "C", "D", "E", "F", "G", "H">>
Header == "Q"

\* constant tables: the code of a character, the value of a symbol
CharCode == [c \in {Alphabet[k] : k \in 1..Len(Alphabet)} |->
                (CHOOSE k \in 1..Len(Alphabet) : Alphabet[k] = c) - 1]
SymVal == [c \in {SafeSym[k] : k \in 1..Len(SafeSym)} |->
                (CHOOSE k \in 1..Len(SafeSym) : SafeSym[k] = c) - 1]
IsSym(c) == c \in DOMAIN SymVal

\* the argument is a string; the result is a sequence of URI-safe characters
compressToEncodedURIComponent(s) ==
    With(s, LAMBDA v :
        <<Header>> \o
        [k \in 1..(2 * Len(v)) |->
            IF k % 2 = 1 THEN SafeSym[(CharCode[v[(k + 1) \div 2]] \div 8) + 1]
            ELSE SafeSym[(CharCode[v[(k + 1) \div 2]] % 8) + 1]])

DecompressChars(f) ==
    With(f, LAMBDA v :
        SubSeq([k \in 1..(Len(v) \div 2) |->
                   Alphabet[SymVal[v[2 * k - 1]] * 8 + SymVal[v[2 * k]] + 1]],
               1, Len(v) \div 2))

IsEncoding(f) ==
    \E v \in {f} :
        /\ v # <<>>
        /\ v[1] = Header
        /\ (Len(v) - 1) % 2 = 0
        /\ \A k \in 2..Len(v) : IsSym(v[k])
        /\ \A k \in 1..((Len(v) - 1) \div 2) :
              SymVal[v[2 * k]] * 8 + SymVal[v[2 * k + 1]] < Len(Alphabet)

\* the result is a JavaScript value: null, or the decompressed string
decompressFromEncodedURIComponent(f) ==
    With(f, LAMBDA v : IF IsEncoding(v) THEN Str(DecompressChars(Tail(v))) ELSE Null)


(***************************************************************************)
(* window.location.hash                                                    *)
(***************************************************************************)
\* the value read back after `window.location.hash = s`: a leading "#" of s
\* is dropped, and a non-empty fragment reads back with "#" in front
SetLocationHash(s) ==
    LET frag == IF s # <<>> /\ Head(s) = "#" THEN Tail(s) ELSE s
    IN  IF frag = <<>> THEN <<>> ELSE <<"#">> \o frag

\* String.prototype.slice(1)
Slice1(s) == IF s = <<>> THEN <<>> ELSE Tail(s)

(***************************************************************************)
(* hostGame: the codec                                                     *)
(***************************************************************************)
\* #hashState writing the name under a key that #unhashState does not read
hashState_nameKey(name, list) ==
    LET jsonString == JSONStringify(Obj(<< <<<<"n", "a", "m", "e">>, name>>,
                                           <<<<"l", "i", "s", "t">>, list>> >>))
        hashString == compressToEncodedURIComponent(jsonString)
    IN  SetLocationHash(hashString)

\* #hashState: the new value of window.location.hash
hashState(name, list) ==
    LET jsonString == JSONStringify(Obj(<< <<Key_title, name>>, <<Key_list, list>> >>))
        hashString == compressToEncodedURIComponent(jsonString)
    IN  SetLocationHash(hashString)

EmptyName == Str(<<>>)
EmptyList == Arr(<<>>)

\* #unhashState of the second revision (lines 283-296): every exception is
\* caught and resets both fields
unhashState2(hash) ==
    LET hashString == Slice1(hash)
        jsonString == decompressFromEncodedURIComponent(hashString)
        obj == JSONParse(jsonString)
    IN  IF ~obj.ok \/ obj.v.t = "null"
        THEN [thrown |-> FALSE, success |-> FALSE,
              gName |-> EmptyName, qList |-> EmptyList]
        ELSE [thrown |-> FALSE, success |-> TRUE,
              gName |-> Get(obj.v, Key_title), qList |-> Get(obj.v, Key_list)]

\* #unhashState of the first revision (lines 88-101): no try/catch, so the
\* SyntaxError of JSON.parse leaves the method and the constructor; a falsy
\* parse result resets both fields
unhashState1(hash) ==
    LET hashString == Slice1(hash)
        jsonString == decompressFromEncodedURIComponent(hashString)
        obj == JSONParse(jsonString)
    IN  IF ~obj.ok
        THEN [thrown |-> TRUE, success |-> FALSE,
              gName |-> EmptyName, qList |-> EmptyList]
        ELSE IF ~Truthy(obj.v)
        THEN [thrown |-> FALSE, success |-> FALSE,
              gName |-> EmptyName, qList |-> EmptyList]
        ELSE [thrown |-> FALSE, success |-> TRUE,
              gName |-> Get(obj.v, Key_title), qList |-> Get(obj.v, Key_list)]

unhashState(r, hash) == IF r = 1 THEN unhashState1(hash) ELSE unhashState2(hash)

(***************************************************************************)
(* hostGame: validation of qListAdd and Array.prototype.splice             *)
(***************************************************************************)
MaxWords == 20

Err_NotString == "Item must be a string"
Err_Empty == "Question cannot be empty"
Err_TooMany == "Question must be 20 words or less"

\* the error checks of qListAdd (lines 231-242), in the order of the code;
\* the third message carries wordCount
qListAddCheck(item) ==
    IF ~IsStr(item) THEN [success |-> FALSE, error |-> Err_NotString]
    ELSE IF Trim(item.s) = <<>> THEN [success |-> FALSE, error |-> Err_Empty]
    ELSE LET wordCount == SplitLen(Trim(item.s))
         IN  IF wordCount > MaxWords
             THEN [success |-> FALSE, error |-> Err_TooMany, wordCount |-> wordCount]
             ELSE [success |-> TRUE]

Min(a, b) == IF a < b THEN a ELSE b
Max(a, b) == IF a > b THEN a ELSE b

\* a.splice(index, 1) for an integer index: a negative index counts from
\* the end, and the start is clamped to 0 .. length
Splice1(a, index) ==
    LET len == Len(a)
        start == IF index < 0 THEN Max(len + index, 0) ELSE Min(index, len)
        deleteCount == Min(1, len - start)
    IN  SubSeq(a, 1, start) \o SubSeq(a, start + deleteCount + 1, len)


(***************************************************************************)
(* Inputs of the model.                                                    *)
(***************************************************************************)
\* n words separated by single spaces
Words(n) == SubSeq([k \in 1..(2 * n - 1) |-> IF k % 2 = 1 THEN "a" ELSE " "], 1, 2 * n - 1)

\* arguments of qListAdd: strings of every class of the validation, among
\* them MaxWords and MaxWords + 1 words and a padded string with characters
\* that JSON escapes, and values that are not strings
Items ==
    { Str(<<>>), Str(<<" ", "\t">>),
      Str(<<" ", "q", "\"", "\\", "\t", " ", "c", " ">>),
      Str(Words(MaxWords)), Str(Words(MaxWords + 1)),
      Num(5), Null, Undef, Arr(<<Str(<<"a">>)>>) }

\* arguments of setGName: the values of a text input
Names == { Str(<<>>), Str(<<"g", "\"", "\\", " ">>) }

\* arguments of qListDelete
Indices == (0 - MaxIndex)..MaxIndex

State(name, list) == Obj(<< <<Key_title, name>>, <<Key_list, list>> >>)

\* texts that a fragment present at load can decompress to: states written
\* by #hashState, JSON values of other shapes, and text that is not JSON
StartTexts ==
    { JSONStringify(v) :
        v \in { State(Str(<<"t">>), Arr(<<Str(<<"a">>), Str(<<"b">>)>>)),
                State(EmptyName, EmptyList),
                State(Str(<<"t">>), Undef),
                State(Undef, Arr(<<Str(<<"a">>)>>)),
                State(Str(<<"t">>), Arr(<<Str(<<" ">>)>>)),
                State(Str(<<"t">>), Str(<<"a", "b">>)),
                State(Num(5), Arr(<<Num(1)>>)),
                Null,
                Num(0) } }
    \cup
    { <<>>, <<"{">>,
      <<"{">> \o Quote(Key_title) \o <<":">> \o Quote(<<"t">>) \o <<",">>
         \o Quote(Key_list) \o <<":", "[", "1", "e", "9", "9", "9", "]", "}">> }

\* values of window.location.hash at load: no fragment, a fragment that is
\* not the output of the compressor, and the compressed StartTexts
StartHashes ==
    { <<>>, <<"#", "n", "o", "t", "-", "v", "a", "l", "i", "d">> }
    \cup { SetLocationHash(compressToEncodedURIComponent(t)) : t \in StartTexts }

(***************************************************************************)
(* State.                                                                  *)
(***************************************************************************)
VARIABLES
    rev,        \* which revision of the script the page runs: 1 or 2
    pc,         \* "load": before `new hostGame()`; "ready": the store
                \* exists; "crashed": the constructor threw
    locHash,    \* window.location.hash
    gName,      \* hostGame.#gName
    qList,      \* hostGame.#qList
    last,       \* the method call of the last step, if it made one: its
                \* name, argument, result, whether it threw, and the
                \* store and fragment before it
    startEmpty, \* the constructor left the store with title "" and list []
    mutated,    \* some mutator of this session has succeeded
    sender,     \* on a page opened from a published fragment: the store of
                \* the session that published it
    qrVis,      \* the variable qrVis of the second revision
    listEl,     \* the items of the question list on the page: the text shown
                \* and the index captured by the item's delete button
    showQRBtnDisabled,  \* showQRBtn.disabled
    qrContainer,    \* the canvases in qrContainer: each the text it encodes
    pending,    \* the QRCode.toCanvas calls whose callback has not run
                \* yet: a bag of the texts they were given
    lastGenQR,  \* the text the latest genQR call handed to QRCode.toCanvas
    event       \* the last event of the page: its name, whether its
                \* listener ran and threw, the text it handed to the
                \* renderer, and the store and the page before it

storeVars == <<rev, pc, locHash, gName, qList, startEmpty, mutated, sender>>

uiVars == <<qrVis, listEl, showQRBtnDisabled, qrContainer, pending, lastGenQR, event>>

vars == <<rev, pc, locHash, gName, qList, last, startEmpty, mutated, sender,
          qrVis, listEl, showQRBtnDisabled, qrContainer, pending, lastGenQR, event>>

NoCall == [op |-> "none"]
NoSender == [any |-> FALSE]

Snapshot == [gName |-> gName, qList |-> qList, hash |-> locHash]

NoEvent == [name |-> "none"]

\* the page as the script leaves the document before the first render: no
\* list items, no canvas, no renderer call
PageInit ==
    /\ qrVis = FALSE
    /\ listEl = <<>>
    /\ qrContainer = <<>>
    /\ pending = EmptyBag
    /\ lastGenQR = Undef
    /\ event = NoEvent

Call(op, arg, result, thrown) ==
    [op |-> op, arg |-> arg, result |-> result, thrown |-> thrown, pre |-> Snapshot]

\* the field initializers of the class (lines 207, 210) run before the
\* constructor body
Init ==
    /\ rev = 2 \/ rev = 1
    /\ pc = "load"
    /\ locHash \in StartHashes
    /\ gName = EmptyName
    /\ qList = EmptyList
    /\ last = NoCall
    /\ startEmpty = FALSE
    /\ mutated = FALSE
    /\ sender = NoSender
    /\ PageInit
    /\ showQRBtnDisabled = FALSE

\* `const host = new hostGame()` (lines 118, 318): the constructor calls
\* #unhashState; an exception leaving it ends the script
Construct ==
    /\ pc = "load"
    /\ LET r == unhashState(rev, locHash)
       IN  /\ pc' = IF r.thrown THEN "crashed" ELSE "ready"
           /\ gName' = r.gName
           /\ qList' = r.qList
           /\ startEmpty' = (~r.thrown /\ r.gName = EmptyName /\ r.qList = EmptyList)
           /\ last' = Call("constructor", Undef, [success |-> r.success], r.thrown)
    /\ UNCHANGED <<rev, locHash, mutated, sender>>

\* qListAdd pushing and publishing before it validates
qListAdd_pushBeforeCheck(item) ==
    /\ pc = "ready"
    /\ IsArr(qList)
    /\ Len(qList.a) < MaxQuestions
    /\ qList' = Arr(Append(qList.a, item))
    /\ locHash' = hashState(gName, qList')
    /\ last' = Call("qListAdd", item, qListAddCheck(item), FALSE)
    /\ mutated' = TRUE
    /\ sender' = NoSender
    /\ UNCHANGED <<rev, pc, gName, startEmpty>>

\* qListAdd putting the new question in front of the list
qListAdd_unshift(item) ==
    /\ pc = "ready"
    /\ LET r == qListAddCheck(item)
       IN  IF ~r.success
           THEN /\ last' = Call("qListAdd", item, r, FALSE)
                /\ UNCHANGED <<gName, qList, locHash, mutated>>
           ELSE IF ~IsArr(qList)
           THEN /\ last' = Call("qListAdd", item, Undef, TRUE)
                /\ UNCHANGED <<gName, qList, locHash, mutated>>
           ELSE /\ Len(qList.a) < MaxQuestions
                /\ qList' = Arr(<<item>> \o qList.a)
                /\ locHash' = hashState(gName, qList')
                /\ last' = Call("qListAdd", item, r, FALSE)
                /\ mutated' = TRUE
                /\ UNCHANGED gName
    /\ sender' = NoSender
    /\ UNCHANGED <<rev, pc, startEmpty>>

\* qListAdd(item) (lines 229-248).  push on a #qList that is not an array
\* throws a TypeError before anything is changed.
qListAdd(item) ==
    /\ pc = "ready"
    /\ LET r == qListAddCheck(item)
       IN  IF ~r.success
           THEN /\ last' = Call("qListAdd", item, r, FALSE)
                /\ UNCHANGED <<gName, qList, locHash, mutated>>
           ELSE IF ~IsArr(qList)
           THEN /\ last' = Call("qListAdd", item, Undef, TRUE)
                /\ UNCHANGED <<gName, qList, locHash, mutated>>
           ELSE /\ Len(qList.a) < MaxQuestions
                /\ qList' = Arr(Append(qList.a, item))
                /\ locHash' = hashState(gName, qList')
                /\ last' = Call("qListAdd", item, r, FALSE)
                /\ mutated' = TRUE
                /\ UNCHANGED gName
    /\ sender' = NoSender
    /\ UNCHANGED <<rev, pc, startEmpty>>

\* qListDelete(index) (lines 254-257).  splice on a #qList that is not an
\* array throws a TypeError before anything is changed.
qListDelete(index) ==
    /\ pc = "ready"
    /\ IF ~IsArr(qList)
       THEN /\ last' = Call("qListDelete", Num(index), Undef, TRUE)
            /\ UNCHANGED <<gName, qList, locHash, mutated>>
       ELSE /\ qList' = Arr(Splice1(qList.a, index))
            /\ locHash' = hashState(gName, qList')
            /\ last' = Call("qListDelete", Num(index), Undef, FALSE)
            /\ mutated' = TRUE
            /\ UNCHANGED gName
    /\ sender' = NoSender
    /\ UNCHANGED <<rev, pc, startEmpty>>

\* setGName without the call of #hashState
setGName_noSync(name) ==
    /\ pc = "ready"
    /\ gName' = name
    /\ last' = Call("setGName", name, Undef, FALSE)
    /\ mutated' = TRUE
    /\ sender' = NoSender
    /\ UNCHANGED <<rev, pc, qList, locHash, startEmpty>>

\* setGName keeping the old title when the new one is empty
setGName_keepIfEmpty(name) ==
    /\ pc = "ready"
    /\ gName' = IF name = EmptyName THEN gName ELSE name
    /\ locHash' = hashState(gName', qList)
    /\ last' = Call("setGName", name, Undef, FALSE)
    /\ mutated' = TRUE
    /\ sender' = NoSender
    /\ UNCHANGED <<rev, pc, qList, startEmpty>>

\* setGName(name) (lines 263-266)
setGName(name) ==
    /\ pc = "ready"
    /\ gName' = name
    /\ locHash' = hashState(gName', qList)
    /\ last' = Call("setGName", name, Undef, FALSE)
    /\ mutated' = TRUE
    /\ sender' = NoSender
    /\ UNCHANGED <<rev, pc, qList, startEmpty>>

\* the published address is opened in a fresh session: a new page of the
\* same script, whose window.location.hash is the published fragment
OpenShared ==
    /\ pc = "ready"
    /\ sender = NoSender
    /\ sender' = [any |-> TRUE, gName |-> gName, qList |-> qList,
                  startEmpty |-> startEmpty, mutated |-> mutated]
    /\ pc' = "load"
    /\ gName' = EmptyName
    /\ qList' = EmptyList
    /\ last' = NoCall
    /\ startEmpty' = FALSE
    /\ mutated' = FALSE
    /\ UNCHANGED <<rev, locHash>>

(***************************************************************************)
(* The class on its own: a caller constructs the store and calls its       *)
(* public methods with any argument; the page is not involved.             *)
(***************************************************************************)
Caller_new == Construct /\ UNCHANGED uiVars

Caller_qListAdd(item) == qListAdd(item) /\ UNCHANGED uiVars

Caller_qListDelete(index) == qListDelete(index) /\ UNCHANGED uiVars

Caller_setGName(name) == setGName(name) /\ UNCHANGED uiVars

Caller_open == OpenShared /\ UNCHANGED uiVars

Next ==
    \/ Caller_new
    \/ \E item \in Items : Caller_qListAdd(item)
    \/ \E index \in Indices : Caller_qListDelete(index)
    \/ \E name \in Names : Caller_setGName(name)
    \/ Caller_open

Spec == Init /\ [][Next]_vars

(***************************************************************************)
(* The page: render, genQR and the event listeners of the script.          *)
(***************************************************************************)
\* the largest number of QRCode.toCanvas calls whose callback is outstanding
MaxPending == 2

\* the address of the page without its fragment; window.location.href is
\* this followed by window.location.hash
PageAddress == <<"h", ":", "/", "/", "x", "/">>

LocationHref(hash) == PageAddress \o hash

\* getQuestions(): the spread [...this.#qList] copies an array, splits a
\* string into its characters, and throws a TypeError on a value that is
\* not iterable
getQuestions(list) ==
    IF IsArr(list) THEN [thrown |-> FALSE, a |-> list.a]
    ELSE IF IsStr(list)
    THEN [thrown |-> FALSE, a |-> [i \in 1..Len(list.s) |-> Str(<<list.s[i]>>)]]
    ELSE [thrown |-> TRUE, a |-> <<>>]

\* genQR(container): a TODO without effect in the first revision (lines
\* 106-114); in the second (lines 301-314) it reads window.location.hash,
\* empties the container and calls QRCode.toCanvas, whose callback runs at
\* a time the library chooses
genQR(r, hash, page) ==
    IF r = 1 THEN page
    ELSE [page EXCEPT !.qrContainer = <<>>,
                      !.pending = page.pending (+) SetToBag({hash}),
                      !.lastGenQR = Str(hash),
                      !.genQR = Str(hash)]

\* the page as a record, for render to work on
Page ==
    [thrown |-> FALSE, listEl |-> listEl, showQRBtnDisabled |-> showQRBtnDisabled,
     qrContainer |-> qrContainer, pending |-> pending, lastGenQR |-> lastGenQR,
     genQR |-> Undef]

\* the list items render builds from the copy of the questions: the text
\* and the index of forEach, which the delete listener captures
ListItems(questions) ==
    [i \in 1..Len(questions) |-> [text |-> questions[i], index |-> i - 1]]

\* render() of the first revision (lines 131-166)
render1(name, list, hash, page) ==
    LET q == getQuestions(list)
    IN  IF q.thrown
        THEN [page EXCEPT !.thrown = TRUE, !.listEl = <<>>]
        ELSE With([page EXCEPT !.listEl = ListItems(q.a)], LAMBDA shown :
                IF Len(q.a) = 0 THEN shown ELSE genQR(1, hash, shown))

\* render() of the second revision (lines 337-383)
render2(vis, name, list, hash, page) ==
    IF vis THEN genQR(2, hash, page)
    ELSE LET q == getQuestions(list)
         IN  IF q.thrown
             THEN [page EXCEPT !.thrown = TRUE, !.listEl = <<>>]
             ELSE With([page EXCEPT !.listEl = ListItems(q.a)], LAMBDA shown :
                     IF Len(q.a) = 0 \/ name = Str(<<>>)
                     THEN [shown EXCEPT !.showQRBtnDisabled = TRUE]
                     ELSE genQR(2, hash, [shown EXCEPT !.showQRBtnDisabled = FALSE]))

render(r, vis, name, list, hash, page) ==
    IF r = 1 THEN render1(name, list, hash, page)
    ELSE render2(vis, name, list, hash, page)

\* the store, the fragment, the view and the canvases before an event
PageSnapshot ==
    [gName |-> gName, qList |-> qList, hash |-> locHash, qrVis |-> qrVis,
     qrContainer |-> qrContainer]

\* an event: ran says that its listener was called, thrown that an
\* exception left the listener, genQR is the text handed to the renderer
Event(name, arg, ran, thrown, url) ==
    [name |-> name, arg |-> arg, ran |-> ran, thrown |-> thrown, genQR |-> url]

\* an event that calls no method of the store, with the state before it
EventOn(name, arg, ran, thrown, url) ==
    [name |-> name, arg |-> arg, ran |-> ran, thrown |-> thrown, genQR |-> url,
     pre |-> PageSnapshot]

\* the page after a render that returned the record pg
SetPage(pg) ==
    /\ BagCardinality(pg.pending) <= MaxPending
    /\ listEl' = pg.listEl
    /\ showQRBtnDisabled' = pg.showQRBtnDisabled
    /\ qrContainer' = pg.qrContainer
    /\ pending' = pg.pending
    /\ lastGenQR' = pg.lastGenQR

PageUnchanged ==
    UNCHANGED <<listEl, showQRBtnDisabled, qrContainer, pending, lastGenQR>>

\* what the user types into the question field and the name field
Texts == { Str(<<" ">>), Str(<<"a">>) }

Titles == { Str(<<>>), Str(<<"t">>) }

\* the fragments the page is loaded with: none, a valid state, a state
\* without title whose list is a string, and a state without list
PageHashes ==
    { <<>> } \cup
    { SetLocationHash(compressToEncodedURIComponent(JSONStringify(v))) :
        v \in { State(Str(<<"t">>), Arr(<<Str(<<"a">>), Str(<<"b">>)>>)),
                State(Undef, Str(<<"a", "b">>)),
                State(Str(<<"t">>), Undef) } }

\* the document as served: the disabled attribute of the show button is
\* set by the HTML, which the script does not fix
InitPage ==
    /\ rev = 2 \/ rev = 1
    /\ pc = "load"
    /\ locHash \in PageHashes
    /\ gName = EmptyName
    /\ qList = EmptyList
    /\ last = NoCall
    /\ startEmpty = FALSE
    /\ mutated = FALSE
    /\ sender = NoSender
    /\ PageInit
    /\ showQRBtnDisabled \in BOOLEAN

\* the script runs: `new hostGame()` (lines 118, 318), the listeners are
\* registered, and render() is called (lines 193, 435).  An exception
\* leaving the constructor ends the script before any listener exists; one
\* leaving render() ends it with the listeners in place.
Load ==
    /\ Construct
    /\ qrVis' = FALSE
    /\ IF pc' = "ready"
       THEN \E pg \in {render(rev, FALSE, gName', qList', locHash, Page)} :
               /\ SetPage(pg)
               /\ event' = Event("load", Undef, TRUE, pg.thrown, pg.genQR)
       ELSE /\ PageUnchanged
            /\ event' = Event("load", Undef, TRUE, TRUE, Undef)

\* the click listener of addBtn (lines 172-178, 389-395); Enter in the
\* question field clicks the button (lines 183-187, 400-404)
addBtnClick(text) ==
    /\ ~qrVis
    /\ qListAdd(text)
    /\ qrVis' = qrVis
    /\ IF last'.thrown
       THEN /\ PageUnchanged
            /\ event' = Event("addBtnClick", text, TRUE, TRUE, Undef)
       ELSE IF ~last'.result.success
       THEN /\ PageUnchanged
            /\ event' = Event("addBtnClick", text, TRUE, FALSE, Undef)
       ELSE \E pg \in {render(rev, qrVis, gName', qList', locHash', Page)} :
               /\ SetPage(pg)
               /\ event' = Event("addBtnClick", text, TRUE, pg.thrown, pg.genQR)

\* the click listener of the delete button of the k-th list item (lines
\* 148-151, 367-370): it deletes at the index captured when the item was
\* rendered
delBtnClick(k) ==
    /\ ~qrVis
    /\ k \in DOMAIN listEl
    /\ qListDelete(listEl[k].index)
    /\ qrVis' = qrVis
    /\ IF last'.thrown
       THEN /\ PageUnchanged
            /\ event' = Event("delBtnClick", listEl[k], TRUE, TRUE, Undef)
       ELSE \E pg \in {render(rev, qrVis, gName', qList', locHash', Page)} :
               /\ SetPage(pg)
               /\ event' = Event("delBtnClick", listEl[k], TRUE, pg.thrown, pg.genQR)

\* the change listener without render() in both revisions
nameInputChange_noRender(name) ==
    /\ ~qrVis
    /\ setGName(name)
    /\ qrVis' = qrVis
    /\ PageUnchanged
    /\ event' = Event("nameInputChange", name, TRUE, FALSE, Undef)

\* the change listener of nameInput: without render() in the first
\* revision (lines 189-191), with it in the second (lines 409-412)
nameInputChange(name) ==
    /\ ~qrVis
    /\ setGName(name)
    /\ qrVis' = qrVis
    /\ IF rev = 1
       THEN /\ PageUnchanged
            /\ event' = Event("nameInputChange", name, TRUE, FALSE, Undef)
       ELSE \E pg \in {render(rev, qrVis, gName', qList', locHash', Page)} :
               /\ SetPage(pg)
               /\ event' = Event("nameInputChange", name, TRUE, pg.thrown, pg.genQR)

\* a press of showQRBtn that always opens the view of the code
showQRBtnClick_always ==
    /\ rev = 2
    /\ pc = "ready"
    /\ ~qrVis
    /\ UNCHANGED storeVars
    /\ last' = NoCall
    /\ qrVis' = TRUE
    /\ \E pg \in {render(rev, TRUE, gName, qList, locHash, Page)} :
          /\ SetPage(pg)
          /\ event' = EventOn("showQRBtnClick", Undef, TRUE, pg.thrown, pg.genQR)

\* the user presses showQRBtn.  A disabled button dispatches no click
\* event; otherwise the click listener runs (lines 417-424).
showQRBtnClick ==
    /\ rev = 2
    /\ pc = "ready"
    /\ ~qrVis
    /\ UNCHANGED storeVars
    /\ last' = NoCall
    /\ IF showQRBtnDisabled
       THEN /\ qrVis' = qrVis
            /\ PageUnchanged
            /\ event' = EventOn("showQRBtnClick", Undef, FALSE, FALSE, Undef)
       ELSE \E q \in {getQuestions(qList)} :
               IF q.thrown
               THEN /\ qrVis' = qrVis
                    /\ PageUnchanged
                    /\ event' = EventOn("showQRBtnClick", Undef, TRUE, TRUE, Undef)
               ELSE IF Len(q.a) = 0
               THEN /\ qrVis' = qrVis
                    /\ PageUnchanged
                    /\ event' = EventOn("showQRBtnClick", Undef, TRUE, FALSE, Undef)
               ELSE /\ qrVis' = TRUE
                    /\ \E pg \in {render(rev, TRUE, gName, qList, locHash, Page)} :
                          /\ SetPage(pg)
                          /\ event' = EventOn("showQRBtnClick", Undef, TRUE, pg.thrown, pg.genQR)

\* the click listener of backBtn (lines 429-432); the button is on the
\* page of the code, which is hidden while qrVis is false
backBtnClick ==
    /\ rev = 2
    /\ pc = "ready"
    /\ qrVis
    /\ UNCHANGED storeVars
    /\ last' = NoCall
    /\ qrVis' = FALSE
    /\ \E pg \in {render(rev, FALSE, gName, qList, locHash, Page)} :
          /\ SetPage(pg)
          /\ event' = EventOn("backBtnClick", Undef, TRUE, pg.thrown, pg.genQR)

\* a callback that appends the canvas without looking at err
toCanvasCallback_ignoreErr(err) ==
    /\ pc = "ready"
    /\ \E url \in BagToSet(pending) :
          /\ pending' = pending (-) SetToBag({url})
          /\ qrContainer' = Append(qrContainer, url)
          /\ event' = EventOn("toCanvasCallback", [err |-> err, url |-> url],
                              TRUE, FALSE, Undef)
    /\ UNCHANGED storeVars
    /\ last' = NoCall
    /\ UNCHANGED <<qrVis, listEl, showQRBtnDisabled, lastGenQR>>

\* the callback of one of the outstanding QRCode.toCanvas calls runs (lines
\* 311-313), with an error or with the canvas of the text of that call
toCanvasCallback(err) ==
    /\ pc = "ready"
    /\ \E url \in BagToSet(pending) :
          /\ pending' = pending (-) SetToBag({url})
          /\ qrContainer' = IF err THEN qrContainer ELSE Append(qrContainer, url)
          /\ event' = EventOn("toCanvasCallback", [err |-> err, url |-> url],
                              TRUE, FALSE, Undef)
    /\ UNCHANGED storeVars
    /\ last' = NoCall
    /\ UNCHANGED <<qrVis, listEl, showQRBtnDisabled, lastGenQR>>

NextPage ==
    \/ Load
    \/ \E text \in Texts : addBtnClick(text)
    \/ \E k \in 1..(MaxQuestions + 1) : delBtnClick(k)
    \/ \E name \in Titles : nameInputChange(name)
    \/ showQRBtnClick
    \/ backBtnClick
    \/ \E err \in BOOLEAN : toCanvasCallback(err)

SpecPage == InitPage /\ [][NextPage]_vars


(***************************************************************************)
(* Vocabulary of the properties.                                           *)
(***************************************************************************)
IsMutator == last.op \in {"setGName", "qListAdd", "qListDelete"}

\* the last call was a mutator that returned normally and, for qListAdd,
\* reported success
MutatorSucceeded ==
    /\ IsMutator
    /\ ~last.thrown
    /\ last.op = "qListAdd" => last.result.success

\* the codec's encode, written out: serialize, compress, put after "#"
Encode(name, list) ==
    <<"#">> \o compressToEncodedURIComponent(JSONStringify(State(name, list)))

\* what a session that loads the fragment adopts
Decode(r, hash) == unhashState(r, hash)

ValidQuestion(q) ==
    /\ Trim(q.s) # <<>>
    /\ SplitLen(Trim(q.s)) <= MaxWords

\* the text of the fragment does not decompress, or is not JSON
NonDecodable(hash) ==
    LET jsonString == decompressFromEncodedURIComponent(Slice1(hash))
    IN  jsonString = Null \/ ~JSONParse(jsonString).ok

\* the list that getQuestions() shows has a length: the elements of an
\* array, the characters of a string
HasLength(list) == list.t \in {"array", "string"}
Length(list) == IF list.t = "array" THEN Len(list.a) ELSE Len(list.s)

\* seq without its element at position i (counted from 0)
DropAt(seq, i) == SubSeq(seq, 1, i) \o SubSeq(seq, i + 2, Len(seq))

(***************************************************************************)
(* C1.  After every successful mutator call (setGName, a successful        *)
(* qListAdd, qListDelete) the published fragment is exactly the encoding   *)
(* of the new (title, questions) pair: it replaces the old fragment and is *)
(* a function of the pair alone, so two stores holding the same pair after *)
(* a mutator publish the same string.                                      *)
(***************************************************************************)
C1_PublishedIsEncodingOfState ==
    MutatorSucceeded => locHash = Encode(gName, qList)

\* a delete has published the encoding of a list it shortened, over a
\* fragment that was different
C1_Witness ==
    /\ MutatorSucceeded
    /\ last.op = "qListDelete"
    /\ last.pre.qList # qList
    /\ locHash = Encode(gName, qList)
    /\ locHash # last.pre.hash

(***************************************************************************)
(* C2.  In every state from the end of the constructor on, whatever the    *)
(* starting fragment was, decoding the published fragment yields exactly   *)
(* the title and the questions held in memory.                             *)
(***************************************************************************)
C2_FragmentDecodesToMemory ==
    pc = "ready" =>
        LET d == Decode(rev, locHash)
        IN  ~d.thrown /\ d.gName = gName /\ d.qList = qList

(***************************************************************************)
(* C3.  Sharing: when a store that started empty has had at least one      *)
(* successful mutator, a fresh session constructed on the fragment it      *)
(* published adopts exactly its title and its questions, in order.         *)
(***************************************************************************)
C3_SharedSessionAdoptsState ==
    (sender.any /\ sender.startEmpty /\ sender.mutated /\ pc # "load") =>
        /\ pc = "ready"
        /\ gName = sender.gName
        /\ qList = sender.qList

\* a fresh session has adopted a title and two questions from a store that
\* started empty
C3_Witness ==
    /\ sender.any /\ sender.startEmpty /\ sender.mutated
    /\ pc = "ready"
    /\ last.op = "constructor"
    /\ gName = sender.gName /\ gName # EmptyName
    /\ qList = sender.qList /\ IsArr(qList) /\ Len(qList.a) = 2

(***************************************************************************)
(* C4.  In every reachable state, for every starting fragment, every       *)
(* element of the question list is non-empty after trimming and has at     *)
(* most 20 whitespace-delimited words.                                     *)
(***************************************************************************)
C4_QuestionsAreValid ==
    (pc = "ready" /\ IsArr(qList)) =>
        \A i \in 1..Len(qList.a) : IsStr(qList.a[i]) => ValidQuestion(qList.a[i])

(***************************************************************************)
(* C5.  Decoding never partially populates the store: after the            *)
(* constructor, either the title is a string and the questions are a       *)
(* sequence of strings recovered from the fragment, or both are reset to   *)
(* "" and []; a fragment that lacks the title or the list field takes the  *)
(* error path.                                                             *)
(***************************************************************************)
C5_DecodeAllOrNothing ==
    (last.op = "constructor" /\ ~last.thrown) =>
        \/ /\ last.result.success
           /\ IsStr(gName)
           /\ IsArr(qList)
           /\ \A i \in 1..Len(qList.a) : IsStr(qList.a[i])
        \/ /\ ~last.result.success
           /\ gName = EmptyName
           /\ qList = EmptyList

(***************************************************************************)
(* C6.  The constructor on an empty fragment, or on a fragment that does   *)
(* not decompress or whose text is not JSON, does not throw and leaves the *)
(* store with title "" and questions [].                                   *)
(***************************************************************************)
C6_NonDecodableResets ==
    (last.op = "constructor" /\ (last.pre.hash = <<>> \/ NonDecodable(last.pre.hash))) =>
        /\ ~last.thrown
        /\ gName = EmptyName
        /\ qList = EmptyList

C8_InRangeDeleteRemovesThatElement ==
    ( /\ last.op = "qListDelete"
      /\ HasLength(last.pre.qList)
      /\ 0 <= last.arg.n /\ last.arg.n < Length(last.pre.qList) ) =>
        /\ ~last.thrown
        /\ IsArr(last.pre.qList)
        /\ qList = Arr(DropAt(last.pre.qList.a, last.arg.n))
        /\ gName = last.pre.gName

(***************************************************************************)
(* C9.  qListAdd classifies its argument in this order: not a string: the  *)
(* not-a-string error; else empty after trimming: the empty-question       *)
(* error; else more than 20 words after trimming: the too-many-words error *)
(* with that word count; else (1 to 20 words) the call succeeds.           *)
(***************************************************************************)
C9_AddClassifiesInput ==
    last.op = "qListAdd" =>
        /\ ~last.thrown
        /\ LET item == last.arg
               r == last.result
           IN  IF ~IsStr(item)
               THEN ~r.success /\ r.error = Err_NotString
               ELSE IF Trim(item.s) = <<>>
               THEN ~r.success /\ r.error = Err_Empty
               ELSE IF SplitLen(Trim(item.s)) > MaxWords
               THEN /\ ~r.success
                    /\ r.error = Err_TooMany
                    /\ r.wordCount = SplitLen(Trim(item.s))
               ELSE r.success

(***************************************************************************)
(* C10.  A qListAdd that fails with one of the three validation errors     *)
(* leaves the title, the questions and the published fragment unchanged:   *)
(* nothing is encoded or published.                                        *)
(***************************************************************************)
C10_FailedAddChangesNothing ==
    (last.op = "qListAdd" /\ ~last.thrown /\ ~last.result.success) =>
        /\ gName = last.pre.gName
        /\ qList = last.pre.qList
        /\ locHash = last.pre.hash

\* an add has failed for too many words on a store whose fragment is not
\* the encoding of its state, so that publishing would have changed it
C10_Witness ==
    /\ last.op = "qListAdd" /\ ~last.thrown /\ ~last.result.success
    /\ last.result.error = Err_TooMany
    /\ locHash = last.pre.hash
    /\ locHash # Encode(gName, qList)


(***************************************************************************)
(* C11.  A successful qListAdd(item) appends item as the last element: the *)
(* new list is the old list followed by item, so the old elements keep     *)
(* their positions and a question already in the list can be added again;  *)
(* the title is unchanged.                                                 *)
(***************************************************************************)
C11_SuccessfulAddAppends ==
    (last.op = "qListAdd" /\ ~last.thrown /\ last.result.success) =>
        /\ IsArr(last.pre.qList)
        /\ qList = Arr(Append(last.pre.qList.a, last.arg))
        /\ gName = last.pre.gName

\* a question has been added to a list that already held it, and stands
\* after it
C11_Witness ==
    /\ last.op = "qListAdd" /\ ~last.thrown /\ last.result.success
    /\ IsArr(last.pre.qList) /\ Len(last.pre.qList.a) = 1
    /\ last.pre.qList.a[1] = last.arg
    /\ qList = Arr(<<last.arg, last.arg>>)
    /\ gName = last.pre.gName

(***************************************************************************)
(* C12.  Round trip: for every valid state (the title any string, the      *)
(* empty one included; the questions any sequence of valid question        *)
(* strings, the empty one included) decoding the encoding of the state     *)
(* succeeds and yields the same title and the same questions in the same   *)
(* order.                                                                  *)
(***************************************************************************)
ValidState(name, list) ==
    /\ IsStr(name)
    /\ IsArr(list)
    /\ \A i \in 1..Len(list.a) : IsStr(list.a[i]) /\ ValidQuestion(list.a[i])

C12_RoundTrip ==
    (pc = "ready" /\ ValidState(gName, qList)) =>
        LET d == Decode(rev, Encode(gName, qList))
        IN  /\ ~d.thrown
            /\ d.success
            /\ d.gName = gName
            /\ d.qList = qList

\* the state taken through the round trip has a title with a quote and a
\* backslash and two different questions, one with characters to escape
C12_Witness ==
    /\ pc = "ready" /\ ValidState(gName, qList)
    /\ gName = Str(<<"g", "\"", "\\", " ">>)
    /\ Len(qList.a) = 2
    /\ qList.a[1] # qList.a[2]
    /\ Decode(rev, Encode(gName, qList)).qList = qList

(***************************************************************************)
(* C13.  setGName(name) replaces the title with name for every string      *)
(* name, the empty one included; it never fails, leaves the questions      *)
(* unchanged and publishes the encoding of the new state.                  *)
(***************************************************************************)
C13_SetTitleReplacesAndSyncs ==
    (last.op = "setGName" /\ IsStr(last.arg)) =>
        /\ ~last.thrown
        /\ gName = last.arg
        /\ qList = last.pre.qList
        /\ locHash = Encode(gName, qList)

\* the title of a store with questions has been replaced by the empty one
C13_Witness ==
    /\ last.op = "setGName" /\ ~last.thrown
    /\ last.arg = EmptyName
    /\ last.pre.gName # EmptyName
    /\ gName = EmptyName
    /\ IsArr(qList) /\ qList # EmptyList /\ qList = last.pre.qList
    /\ locHash = Encode(gName, qList)
    /\ locHash # last.pre.hash


(***************************************************************************)
(* Vocabulary of the properties of the page.                               *)
(***************************************************************************)
\* the last event called a mutator, which succeeded
StateChanged ==
    /\ event.name \in {"addBtnClick", "delBtnClick", "nameInputChange"}
    /\ MutatorSucceeded

\* the questions the page can show: the copy that getQuestions() returns
Shown == getQuestions(qList)

(***************************************************************************)
(* C14.  A press of the show button while the question list is empty is    *)
(* refused: the view stays the edit view, and the title, the questions and *)
(* the published fragment are what they were.                              *)
(***************************************************************************)
C14_ShowRefusedOnEmptyList ==
    (event.name = "showQRBtnClick" /\ event.pre.qList = EmptyList) =>
        /\ ~qrVis
        /\ ~event.pre.qrVis
        /\ gName = event.pre.gName
        /\ qList = event.pre.qList
        /\ locHash = event.pre.hash

\* the show button has been pressed on a store that has a title and no
\* question, and the edit view is still shown
C14_Witness ==
    /\ event.name = "showQRBtnClick"
    /\ event.pre.qList = EmptyList
    /\ event.pre.gName = Str(<<"t">>)
    /\ ~qrVis
    /\ qList = EmptyList /\ gName = Str(<<"t">>)

(***************************************************************************)
(* C15.  Every time the state of the store changes (a successful setGName, *)
(* qListAdd or qListDelete, also one that leaves the title or the list     *)
(* empty) the renderer is called with the current address: the full        *)
(* address of the page with the fragment as published by that change.      *)
(* Stated for the stores that hold a valid state.                          *)
(***************************************************************************)
C15_RendererGetsCurrentAddress ==
    (StateChanged /\ ValidState(gName, qList)) =>
        event.genQR = Str(LocationHref(locHash))

(***************************************************************************)
(* C16.  A failure of the renderer is not fatal: when the callback of a    *)
(* genQR call reports an error, no exception leaves it, the container has  *)
(* no canvas from that call, the title, the questions, the fragment and    *)
(* the view are unchanged, and the page goes on working.                   *)
(***************************************************************************)
C16_RendererFailureNotFatal ==
    (event.name = "toCanvasCallback" /\ event.arg.err) =>
        /\ ~event.thrown
        /\ pc = "ready"
        /\ qrContainer = event.pre.qrContainer
        /\ gName = event.pre.gName
        /\ qList = event.pre.qList
        /\ locHash = event.pre.hash
        /\ qrVis = event.pre.qrVis

\* in the view of the code the renderer has reported an error for the only
\* outstanding call, and the container is empty
C16_Witness ==
    /\ event.name = "toCanvasCallback" /\ event.arg.err
    /\ qrVis
    /\ event.arg.url = locHash
    /\ pending = EmptyBag
    /\ qrContainer = <<>>

(***************************************************************************)
(* C17.  No stale delete index: in the edit view, after any events, the    *)
(* k-th list item shows the k-th question of the store and its delete      *)
(* button carries that question's index; a click on it removes exactly     *)
(* that question and no other.                                             *)
(***************************************************************************)
C17_NoStaleDeleteIndex ==
    /\ (pc = "ready" /\ ~qrVis) =>
          \A k \in DOMAIN listEl :
              /\ listEl[k].index = k - 1
              /\ ~Shown.thrown
              /\ k <= Len(Shown.a)
              /\ listEl[k].text = Shown.a[k]
    /\ event.name = "delBtnClick" =>
          /\ ~last.thrown
          /\ IsArr(last.pre.qList)
          /\ event.arg.index < Len(last.pre.qList.a)
          /\ last.pre.qList.a[event.arg.index + 1] = event.arg.text
          /\ qList = Arr(DropAt(last.pre.qList.a, event.arg.index))

C19_AtMostOneCurrentVisual ==
    (pc = "ready" /\ ValidState(gName, qList)) =>
        /\ Len(qrContainer) <= 1
        /\ (pending = EmptyBag /\ Len(qrContainer) = 1) =>
              Str(qrContainer[1]) = lastGenQR


====
